---- MODULE Spec2Model ----
(***************************************************************************)
(* The CryptoTrace risk engine (main.py and the src package) as a state    *)
(* machine: load_data -> process_features -> train_models or               *)
(* predict_risk_scores -> calculate_rule_based_scores ->                   *)
(* calculate_final_scores.                                                 *)
(*                                                                         *)
(* Numbers.  Amounts are held in thousandths (2.0 is 2000), times in       *)
(* seconds.  Every quotient the code computes in floating point            *)
(* (flow_ratio, tx_per_minute, structuring_score, the normalised ML        *)
(* scores, FINAL_RISK_SCORE) is held as an exact fraction [num, den] in    *)
(* lowest terms with den > 0, and compared by cross multiplication.        *)
(* log1p is tabulated in thousandths, rounded down.                        *)
(*                                                                         *)
(* A data frame is a function from its index (addresses) to rows; a row    *)
(* is a function from column names to values.  Reading a column that a     *)
(* row does not have is pandas' KeyError: the stage raises and the run     *)
(* ends in pc = "failed".                                                  *)
(***************************************************************************)
EXTENDS Integers, Sequences, FiniteSets, TLC

VARIABLES
    pc,             \* the next step of main(): "load", "features", "indicators", "ml", "rules", "blend", "done", "failed"
    train_mode,     \* main(train_mode): TRUE = train_models, FALSE = load_models + predict_risk_scores
    artifacts,      \* the model files present under models/: a subset of {"scaler", "iso", "lof"}
    df_tx,          \* the transaction frame: a sequence of transaction rows
    df_wallet,      \* the wallet metadata frame: address -> row
    active_wallets, \* the wallet frame the stages augment: address -> row
    error,          \* the exception that ended the run, "none" while it runs
    tx_files,       \* the transaction files under data/raw in name order: each [columns, rows]
    wallet_file,    \* data/raw/wallet.json: <<>> when there is none, else <<[columns, frame]>>
    train_on_clean_data, \* the value config.TRAIN_ON_CLEAN_DATA is set to
    fits,           \* the rows the detectors whose scores entered risk_score_ml were fitted on
    \* run_graph_investigation(df_tx, df_wallets, filter_high_risk)
    g_pc,             \* "idle", "graph", "done", "failed"
    g_df_tx,          \* its transaction frame: [columns, rows]
    g_df_wallets,     \* its wallet frame, flagged in place: address -> row
    filter_high_risk, \* its filter_high_risk argument
    louvain,          \* what importing and running community_louvain does: "ok", "ImportError", "Exception"
    results,          \* the results dictionary it returns (empty until then)
    g_error,          \* the exception that left run_graph_investigation, "none" otherwise
    high_degree_threshold, \* its high_degree_threshold argument
    important_nodes,  \* the nodes filter_important_nodes kept for the figure
    \* update_risk_scores.py: update_database(risk_data, batch_size, dry_run)
    db_pc,            \* "idle", "start", "batch" (the loop of update_wallet_risk_scores), "done"
    risk_data,        \* the dictionary read from the risk-scores JSON: address -> entry
    batch_size,       \* --batch-size
    dry_run,          \* --dry-run
    db_up,            \* whether db.connect() succeeds
    wallet_addresses, \* the committed rows of the table wallet_addresses: address -> row
    batch_start,      \* the loop variable i of update_wallet_risk_scores
    updated_count,
    failed_count,
    batch_log,        \* what became of each batch tried so far: "committed" or "rolled_back"
    returned          \* [count, success]: what update_wallet_risk_scores and update_database return

mainVars == <<pc, train_mode, artifacts, df_tx, df_wallet, active_wallets, error,
              tx_files, wallet_file, train_on_clean_data, fits>>
graphVars == <<g_pc, g_df_tx, g_df_wallets, filter_high_risk, louvain, results, g_error,
               high_degree_threshold, important_nodes>>
dbVars == <<db_pc, risk_data, batch_size, dry_run, db_up, wallet_addresses,
            batch_start, updated_count, failed_count, batch_log, returned>>
scriptVars == <<graphVars, dbVars>>
vars == <<mainVars, graphVars, dbVars>>

-----------------------------------------------------------------------------
(* Bounds of the model *)

MaxCrowd == 6        \* wallets of a caller's frame besides the wallet under study
MaxRaw == 2          \* the detectors' raw scores range over 0..MaxRaw
MaxRealSenders == 6  \* senders of the ledger data read by load_data
MaxRealTx == 2       \* transactions each of those senders sends
MaxLedger == 9       \* transactions of the ledger a graph investigation is tried on
MaxScored == 4       \* wallets of a risk-scores file

-----------------------------------------------------------------------------
(* config.py *)

ACTOR_SMURF == <<"0xBAD_ACTOR_SMURFING", 0>>
ACTOR_LAYER == <<"0xBAD_ACTOR_LAYERING", 0>>
ACTOR_SPAM == <<"0xBAD_ACTOR_SPAMMER", 0>>

SMURFING_TX_COUNT == 50
SMURFING_AMOUNT == 2000
SMURFING_INTERVAL_SECONDS == 10
LAYERING_AMOUNT_IN == 500000
LAYERING_AMOUNT_OUT == 499500
LAYERING_TIME_DIFF_SECONDS == 30
SPAM_TX_COUNT == 100
SPAM_AMOUNT == 1
SPAM_INTERVAL_SECONDS == 5

VALIDATION_TARGETS == {ACTOR_SMURF, ACTOR_LAYER, ACTOR_SPAM}

ML_FEATURES ==
    {"snd_tx_count", "snd_Amount_sum", "snd_unique_counterparties",
     "structuring_score", "passthrough_score", "bot_score"}

MIN_TX_FOR_ML == 2
LOF_N_NEIGHBORS == 20

RISK_THRESHOLD_CRITICAL == 75
RISK_THRESHOLD_HIGH == 50
RISK_THRESHOLD_MEDIUM == 25

RULE_LAYERING_SCORE == 80
RULE_STRUCTURING_HIGH_SCORE == 60
RULE_STRUCTURING_MED_SCORE == 30
RULE_SPAM_HIGH_SCORE == 50
RULE_SPAM_MED_SCORE == 20
RULE_VOLUME_ANOMALY_SCORE == 20

STRUCTURING_MIN_TX == 5
STRUCTURING_HIGH_THRESHOLD == 2
STRUCTURING_MED_THRESHOLD == 1

PASSTHROUGH_RATIO_MIN == [num |-> 9, den |-> 10]
PASSTHROUGH_RATIO_MAX == [num |-> 11, den |-> 10]
PASSTHROUGH_MIN_AMOUNT == 10000

BOT_HIGH_VELOCITY == 20
BOT_MED_VELOCITY == 5

VOLUME_ANOMALY_THRESHOLD == 100000

ML_WEIGHT == [num |-> 3, den |-> 10]
\* faulty variant of RULE_WEIGHT: the rules alone can reach CRITICAL
RULE_WEIGHT_Heavy == [num |-> 8, den |-> 10]

RULE_WEIGHT == [num |-> 7, den |-> 10]

DETECTION_THRESHOLD == 60

GRAPH_HUB_DEGREE_THRESHOLD == 5
GRAPH_CYCLE_MAX_LENGTH == 3

TRAIN_ON_CLEAN_DATA == TRUE

-----------------------------------------------------------------------------
(* Exact fractions standing for the code's floating-point values *)

RECURSIVE Gcd(_, _)
Gcd(a, b) == IF b = 0 THEN a ELSE Gcd(b, a % b)

Rat(n, d) ==
    LET g == Gcd(IF n < 0 THEN -n ELSE n, d)
    IN  [num |-> n \div g, den |-> d \div g]

RatInt(k) == [num |-> k, den |-> 1]
RatLT(a, b) == a.num * b.den < b.num * a.den
RatLE(a, b) == a.num * b.den <= b.num * a.den
RatAdd(a, b) == Rat(a.num * b.den + b.num * a.den, a.den * b.den)
RatMul(a, b) == Rat(a.num * b.num, a.den * b.den)
RatMin(a, b) == IF RatLE(a, b) THEN a ELSE b

\* floor(1000 * ln(1 + n)) for n = 0..102, entry n + 1
Log1pTable ==
    <<0, 693, 1098, 1386, 1609, 1791, 1945, 2079, 2197, 2302, 2397, 2484,
      2564, 2639, 2708, 2772, 2833, 2890, 2944, 2995, 3044, 3091, 3135, 3178,
      3218, 3258, 3295, 3332, 3367, 3401, 3433, 3465, 3496, 3526, 3555, 3583,
      3610, 3637, 3663, 3688, 3713, 3737, 3761, 3784, 3806, 3828, 3850, 3871,
      3891, 3912, 3931, 3951, 3970, 3988, 4007, 4025, 4043, 4060, 4077, 4094,
      4110, 4127, 4143, 4158, 4174, 4189, 4204, 4219, 4234, 4248, 4262, 4276,
      4290, 4304, 4317, 4330, 4343, 4356, 4369, 4382, 4394, 4406, 4418, 4430,
      4442, 4454, 4465, 4477, 4488, 4499, 4510, 4521, 4532, 4543, 4553, 4564,
      4574, 4584, 4595, 4605, 4615, 4624, 4634>>

\* np.log1p
log1p(n) == Rat(Log1pTable[n + 1], 1000)

-----------------------------------------------------------------------------
(* Data frames *)

Index(df) == DOMAIN df

EmptyFrame == [a \in {} |-> 0]

\* the columns of a frame (all rows of a frame have the same columns)
Columns(df) == IF Index(df) = {} THEN {} ELSE DOMAIN df[CHOOSE a \in Index(df) : TRUE]

\* df[col] = values: the column is added, or overwritten when it exists
SetColumn(df, col, values) ==
    [a \in Index(df) |-> (col :> values[a]) @@ df[a]]

-----------------------------------------------------------------------------
(* features.py *)

RECURSIVE SumBetween(_, _, _, _)
\* the amounts of the rows lo..hi of df that are in S, added up
SumBetween(df, S, lo, hi) ==
    IF lo > hi THEN 0
    ELSE IF lo = hi THEN (IF lo \in S THEN df[lo].amount ELSE 0)
    ELSE LET mid == (lo + hi) \div 2
         IN  SumBetween(df, S, lo, mid) + SumBetween(df, S, mid + 1, hi)

\* the 'sum' aggregate of the amount column over the rows S of df
SumAmount(df, S) == SumBetween(df, S, 1, Len(df))

MaxOf(S) == CHOOSE x \in S : \A y \in S : y <= x
MinOf(S) == CHOOSE x \in S : \A y \in S : x <= y

\* tx_velocity(x) for the block times of the rows S: 0 below two transactions,
\* else len(x) / (duration_min + 1) = 60 len(x) / (seconds + 60)
tx_velocity(df, S) ==
    IF Cardinality(S) < 2 THEN RatInt(0)
    ELSE LET times == {df[i].block_time : i \in S}
         IN  Rat(60 * Cardinality(S), (MaxOf(times) - MinOf(times)) + 60)

\* get_wallet_features(df_tx, address_col): one row per address of address_col
\* (of its aggregates, those a scoring stage reads); tx_count is the 'count'
\* aggregate of pkid, which leaves out the rows whose pkid is missing (NaN)
get_wallet_features(df, address_col) ==
    LET c_col == IF address_col = "from_address" THEN "to_address" ELSE "from_address"
        grp(a) == {i \in DOMAIN df : df[i][address_col] = a}
    IN  [a \in {df[i][address_col] : i \in DOMAIN df} |->
            [tx_count |-> Cardinality({i \in grp(a) : "pkid" \in DOMAIN df[i]}),
             amount_sum |-> SumAmount(df, grp(a)),
             unique_counterparties |-> Cardinality({df[i][c_col] : i \in grp(a)}),
             tx_per_minute |-> tx_velocity(df, grp(a))]]

\* the rows aggregate_wallet_profiles keeps: snd_tx_count > 0 or rcv_tx_count > 0
IsActive(row) == row.snd_tx_count > 0 \/ row.rcv_tx_count > 0

\* aggregate_wallet_profiles(df_tx, df_wallet): the wallet metadata outer-joined
\* with the sender and the receiver aggregates, NaN filled with 0, active rows kept
aggregate_wallet_profiles(tx, wallet) ==
    LET df_from == get_wallet_features(tx, "from_address")
        df_to == get_wallet_features(tx, "to_address")
        zero == [tx_count |-> 0, amount_sum |-> 0, unique_counterparties |-> 0,
                 tx_per_minute |-> RatInt(0)]
        meta(a) == IF a \in Index(wallet) THEN wallet[a]
                   ELSE [total_transactions |-> 0, total_volume_in |-> 0,
                         total_volume_out |-> 0]
        snd(a) == IF a \in Index(df_from) THEN df_from[a] ELSE zero
        rcv(a) == IF a \in Index(df_to) THEN df_to[a] ELSE zero
        final_df ==
            [a \in Index(wallet) \cup Index(df_from) \cup Index(df_to) |->
                [total_transactions |-> meta(a).total_transactions,
                 total_volume_in |-> meta(a).total_volume_in,
                 total_volume_out |-> meta(a).total_volume_out,
                 snd_tx_count |-> snd(a).tx_count,
                 snd_amount_sum |-> snd(a).amount_sum,
                 snd_unique_counterparties |-> snd(a).unique_counterparties,
                 snd_tx_per_minute |-> snd(a).tx_per_minute,
                 rcv_tx_count |-> rcv(a).tx_count,
                 rcv_amount_sum |-> rcv(a).amount_sum,
                 rcv_unique_counterparties |-> rcv(a).unique_counterparties,
                 rcv_tx_per_minute |-> rcv(a).tx_per_minute]]
    IN  [a \in {b \in Index(final_df) : IsActive(final_df[b])} |-> final_df[a]]

\* faulty variant of mask_struct: every sender's structuring_score is computed
mask_struct_AnySender(row) == row.snd_tx_count >= 1

\* mask_struct: the rows whose structuring_score is computed
mask_struct(row) == row.snd_tx_count >= STRUCTURING_MIN_TX

\* structuring_score: 0.0, and on mask_struct
\* (snd_unique_counterparties / (snd_tx_count + 1)) * log1p(snd_tx_count)
structuring_score(row) ==
    IF mask_struct(row)
    THEN RatMul(Rat(row.snd_unique_counterparties, row.snd_tx_count + 1),
                log1p(row.snd_tx_count))
    ELSE RatInt(0)

\* flow_ratio: snd_amount_sum / rcv_amount_sum where rcv_amount_sum > 0, else 0
flow_ratio(row) ==
    IF row.rcv_amount_sum > 0
    THEN Rat(row.snd_amount_sum, row.rcv_amount_sum)
    ELSE RatInt(0)

\* faulty variant of mask_pass: the minimum-amount floor is forgotten
mask_pass_NoFloor(row, ratio) ==
    /\ RatLE(PASSTHROUGH_RATIO_MIN, ratio)
    /\ RatLE(ratio, PASSTHROUGH_RATIO_MAX)

\* mask_pass, given the row's flow_ratio
mask_pass(row, ratio) ==
    /\ RatLE(PASSTHROUGH_RATIO_MIN, ratio)
    /\ RatLE(ratio, PASSTHROUGH_RATIO_MAX)
    /\ row.snd_amount_sum > PASSTHROUGH_MIN_AMOUNT

\* passthrough_score: 0.0, and 100.0 on mask_pass
passthrough_score(row, ratio) == IF mask_pass(row, ratio) THEN 100 ELSE 0

\* the columns calculate_risk_indicators reads
IndicatorReads ==
    {"snd_tx_count", "snd_unique_counterparties", "rcv_amount_sum",
     "snd_amount_sum", "snd_tx_per_minute"}

\* calculate_risk_indicators(active_wallets): the frame with structuring_score,
\* passthrough_score, flow_ratio and bot_score set
calculate_risk_indicators(df) ==
    [a \in Index(df) |->
        [c \in DOMAIN df[a] \cup
               {"structuring_score", "passthrough_score", "flow_ratio", "bot_score"} |->
            CASE c = "structuring_score" -> structuring_score(df[a])
              [] c = "flow_ratio" -> flow_ratio(df[a])
              [] c = "passthrough_score" -> passthrough_score(df[a], flow_ratio(df[a]))
              [] c = "bot_score" -> df[a].snd_tx_per_minute
              [] OTHER -> df[a][c]]]

\* process_features(df_tx, df_wallet)
process_features(tx, wallet) ==
    calculate_risk_indicators(aggregate_wallet_profiles(tx, wallet))

-----------------------------------------------------------------------------
(* modeling/train.py and modeling/predict.py *)

\* faulty variant of Eligible: the bar is one transaction too low
Eligible_OffByOne(df) == {a \in Index(df) : df[a].snd_tx_count >= MIN_TX_FOR_ML - 1}

\* the rows with snd_tx_count >= MIN_TX_FOR_ML
Eligible(df) == {a \in Index(df) : df[a].snd_tx_count >= MIN_TX_FOR_ML}

\* train_models: train_data (config.VALIDATION_TARGETS is a non-empty list, so
\* its rows are always dropped) restricted to the eligible rows
ml_subset_train(df) ==
    LET train_data == Index(df) \ VALIDATION_TARGETS
    IN  {a \in train_data : df[a].snd_tx_count >= MIN_TX_FOR_ML}

\* the rows the scaler and the isolation forest of train_models are fitted on
iso_fit(df) == ml_subset_train(df)

\* faulty variant of lof_all_fit: the detector fitted on the training subset scores
lof_all_fit_TrainingSubset(df) == ml_subset_train(df)

\* the rows lof_all, whose negative_outlier_factor_ train_models scores with, is
\* fitted on: all_ml_data
lof_all_fit(df) == Eligible(df)

\* the rows lof_temp of predict_risk_scores is fitted on: ml_subset
lof_temp_fit(df) == Eligible(df)

\* no detector has scored
NoFits == [iso_source |-> "none", iso_rows |-> {}, lof_source |-> "none", lof_rows |-> {}]

\* train_models skips the ensemble when the training subset is this small
NotEnoughData(df) == Cardinality(ml_subset_train(df)) <= 5

\* the feature vector of a row: df[config.ML_FEATURES]
FeatureVector(row) == [c \in ML_FEATURES |-> row[c]]

\* What a fitted detector may return for the rows S of df (iso.score_samples,
\* lof.negative_outlier_factor_): one raw score per row, the same for rows with
\* the same feature vector; which scores is the library's business.
DetectorOutputs(df, S) ==
    LET fvs == {FeatureVector(df[a]) : a \in S}
    IN  {[a \in S |-> g[FeatureVector(df[a])]] : g \in [fvs -> 0..MaxRaw]}

\* normalize_scores(s) = ((s.max() - s) / (s.max() - s.min() + 1e-10)) * 100;
\* the 1e-10 only keeps a constant vector from dividing by zero
normalize_scores(s) ==
    LET mx == MaxOf({s[a] : a \in DOMAIN s})
        mn == MinOf({s[a] : a \in DOMAIN s})
    IN  [a \in DOMAIN s |->
            IF mx = mn THEN RatInt(0) ELSE Rat((mx - s[a]) * 100, mx - mn)]

\* (normalize_scores(raw_iso) + normalize_scores(raw_lof)) / 2
ensemble_score(raw_iso, raw_lof) ==
    LET ni == normalize_scores(raw_iso)
        nl == normalize_scores(raw_lof)
    IN  [a \in DOMAIN raw_iso |-> RatMul(Rat(1, 2), RatAdd(ni[a], nl[a]))]

\* active_wallets.join(scored[['risk_score_ml']], how='left') followed by
\* fillna(0) on the new column
join_ml_scores(df, scored) ==
    SetColumn(df, "risk_score_ml",
              [a \in Index(df) |-> IF a \in DOMAIN scored THEN scored[a] ELSE RatInt(0)])

\* active_wallets['risk_score_ml'] = 0
zero_ml_scores(df) == SetColumn(df, "risk_score_ml", [a \in Index(df) |-> RatInt(0)])

\* n_neighbors of the LocalOutlierFactor fitted on n rows
lof_n_neighbors(n) == IF LOF_N_NEIGHBORS < n - 1 THEN LOF_N_NEIGHBORS ELSE n - 1

\* load_models(): "none" when the scaler file is missing, "error" when joblib.load
\* then misses another file, else "loaded"
load_models(files) ==
    IF "scaler" \notin files THEN "none"
    ELSE IF {"iso", "lof"} \subseteq files THEN "loaded" ELSE "error"

-----------------------------------------------------------------------------
(* services/risk_engine.py *)

\* the columns calculate_rules reads from a row
RuleReads == {"passthrough_score", "structuring_score", "bot_score", "snd_Amount_sum"}

layering_rule(row) == IF row.passthrough_score > 0 THEN RULE_LAYERING_SCORE ELSE 0

\* faulty variant of structuring_rule: 'if' for 'elif', both tiers add up
structuring_rule_BothTiers(row) ==
    (IF RatLT(RatInt(STRUCTURING_HIGH_THRESHOLD), row.structuring_score)
     THEN RULE_STRUCTURING_HIGH_SCORE ELSE 0)
    + (IF RatLT(RatInt(STRUCTURING_MED_THRESHOLD), row.structuring_score)
       THEN RULE_STRUCTURING_MED_SCORE ELSE 0)

structuring_rule(row) ==
    IF RatLT(RatInt(STRUCTURING_HIGH_THRESHOLD), row.structuring_score)
    THEN RULE_STRUCTURING_HIGH_SCORE
    ELSE IF RatLT(RatInt(STRUCTURING_MED_THRESHOLD), row.structuring_score)
         THEN RULE_STRUCTURING_MED_SCORE
         ELSE 0

spam_rule(row) ==
    IF RatLT(RatInt(BOT_HIGH_VELOCITY), row.bot_score) THEN RULE_SPAM_HIGH_SCORE
    ELSE IF RatLT(RatInt(BOT_MED_VELOCITY), row.bot_score) THEN RULE_SPAM_MED_SCORE
         ELSE 0

volume_rule(row) ==
    IF row["snd_Amount_sum"] > VOLUME_ANOMALY_THRESHOLD
    THEN RULE_VOLUME_ANOMALY_SCORE
    ELSE 0

\* calculate_rules(row)
calculate_rules(row) ==
    LET score == layering_rule(row) + structuring_rule(row) + spam_rule(row)
                 + volume_rule(row)
    IN  IF score < 100 THEN score ELSE 100

\* calculate_rule_based_scores(active_wallets), when no row raises
calculate_rule_based_scores(df) ==
    SetColumn(df, "risk_score_rule", [a \in Index(df) |-> calculate_rules(df[a])])

\* faulty variant of blend: the two weights are swapped
blend_SwappedWeights(ml, rule) ==
    RatMin(RatAdd(RatMul(RULE_WEIGHT, ml), RatMul(ML_WEIGHT, RatInt(rule))),
           RatInt(100))

\* ML_WEIGHT * risk_score_ml + RULE_WEIGHT * risk_score_rule, clipped at 100
blend(ml, rule) ==
    RatMin(RatAdd(RatMul(ML_WEIGHT, ml), RatMul(RULE_WEIGHT, RatInt(rule))),
           RatInt(100))

\* faulty variant of get_label: '>' for '>='
get_label_Strict(s) ==
    IF RatLT(RatInt(RISK_THRESHOLD_CRITICAL), s) THEN "CRITICAL"
    ELSE IF RatLT(RatInt(RISK_THRESHOLD_HIGH), s) THEN "HIGH"
    ELSE IF RatLT(RatInt(RISK_THRESHOLD_MEDIUM), s) THEN "MEDIUM"
    ELSE "LOW"

\* get_label(s)
get_label(s) ==
    IF RatLE(RatInt(RISK_THRESHOLD_CRITICAL), s) THEN "CRITICAL"
    ELSE IF RatLE(RatInt(RISK_THRESHOLD_HIGH), s) THEN "HIGH"
    ELSE IF RatLE(RatInt(RISK_THRESHOLD_MEDIUM), s) THEN "MEDIUM"
    ELSE "LOW"

\* calculate_final_scores(active_wallets)
calculate_final_scores(df) ==
    LET final == [a \in Index(df) |-> blend(df[a].risk_score_ml, df[a].risk_score_rule)]
    IN  SetColumn(SetColumn(df, "FINAL_RISK_SCORE", final),
                  "Risk_Level", [a \in Index(df) |-> get_label(final[a])])

\* validate_detection(active_wallets): for each actor in the frame its score,
\* its level and whether the score is above DETECTION_THRESHOLD, and the number
\* of other wallets above RISK_THRESHOLD_HIGH
validate_detection(df) ==
    LET targets == {ACTOR_SMURF, ACTOR_LAYER, ACTOR_SPAM}
        high_risk_real ==
            {a \in Index(df) \ targets :
                RatLT(RatInt(RISK_THRESHOLD_HIGH), df[a].FINAL_RISK_SCORE)}
    IN  [targets |->
            [t \in targets \cap Index(df) |->
                [score |-> df[t].FINAL_RISK_SCORE,
                 level |-> df[t].Risk_Level,
                 detected |-> RatLT(RatInt(DETECTION_THRESHOLD), df[t].FINAL_RISK_SCORE)]],
         false_positives |-> Cardinality(high_risk_real)]

\* export_results(active_wallets): the dictionary written to the risk-scores JSON
export_results(df) ==
    [a \in Index(df) |->
        [FINAL_RISK_SCORE |-> df[a].FINAL_RISK_SCORE, Risk_Level |-> df[a].Risk_Level]]

-----------------------------------------------------------------------------
(* db.py *)

\* dict.get(key, default)
DictGet(d, key, default) == IF key \in DOMAIN d THEN d[key] ELSE default

\* list(risk_data.keys()): the addresses in the order of the file, which is the
\* order of the frame export_results wrote (0xW1, 0xW2, ...)
addresses(data) ==
    [k \in 1..Cardinality(DOMAIN data) |->
        CHOOSE a \in DOMAIN data : Cardinality({b \in DOMAIN data : b[2] < a[2]}) = k - 1]

\* addresses[i:i + batch_size]
batch(data, i, size) ==
    LET all == addresses(data)
        last == IF i + size < Len(all) THEN i + size ELSE Len(all)
    IN  SubSeq(all, i + 1, last)

\* batch_data: one (risk_score, risk_level, addr) per address of the batch
batch_data(data, b) ==
    [k \in DOMAIN b |->
        [risk_score |-> DictGet(data[b[k]], "risk_score", RatInt(0)),
         risk_level |-> DictGet(data[b[k]], "risk_level", "UNKNOWN"),
         addr |-> b[k]]]

RECURSIVE executemany(_, _, _)
\* cursor.executemany(update_query, batch_data), its first k statements:
\* UPDATE wallet_addresses SET risk_score, risk_level WHERE address = addr
executemany(table, rows, k) ==
    IF k = 0 THEN table
    ELSE LET before == executemany(table, rows, k - 1)
             r == rows[k]
         IN  [a \in DOMAIN before |->
                 IF a = r.addr
                 THEN [risk_score |-> r.risk_score, risk_level |-> r.risk_level]
                 ELSE before[a]]

\* faulty variant of rollback: the statements of the failed transaction stay
rollback_KeepsWrites(committed, working) == working

\* conn.rollback(): the table is as the last commit left it
rollback(committed, working) == committed

-----------------------------------------------------------------------------
(* dataset.py *)

\* df.columns.str.lower(), on the column names that occur
lower(c) ==
    CASE c = "FromAddress" -> "fromaddress"
      [] c = "ToAddress" -> "toaddress"
      [] c = "BlockTime" -> "blocktime"
      [] c = "Amount" -> "amount"
      [] c = "Fee" -> "fee"
      [] c = "PKID" -> "pkid"
      [] c = "Address" -> "address"
      [] OTHER -> c

\* column_mapping of normalize_transaction_dataframe, on the names that occur
column_mapping(c) ==
    CASE c = "fromaddress" -> "from_address"
      [] c = "toaddress" -> "to_address"
      [] c = "blocktime" -> "block_time"
      [] OTHER -> c

\* a row under its lowered and renamed column names
RenameRow(r) ==
    [c \in {column_mapping(lower(k)) : k \in DOMAIN r} |->
        r[CHOOSE k \in DOMAIN r : column_mapping(lower(k)) = c]]

\* normalize_transaction_dataframe(df): raised = "none" and the normalised
\* frame, or the exception it raises
normalize_transaction_dataframe(df) ==
    LET columns == {column_mapping(lower(c)) : c \in df.columns}
        normal == [columns |-> columns,
                   rows |-> [i \in DOMAIN df.rows |-> RenameRow(df.rows[i])]]
    IN  IF ~({"from_address", "to_address", "block_time"} \subseteq columns)
        THEN [raised |-> "ValueError", df |-> df]
        ELSE IF ~({"amount", "fee"} \subseteq columns)
        THEN [raised |-> "KeyError", df |-> df]
        ELSE [raised |-> "none", df |-> normal]

RECURSIVE load_files(_, _)
\* the loop of load_transaction_data over the first k files: the frames are
\* normalised one by one and concatenated; the first exception ends the loop
load_files(files, k) ==
    IF k = 0 THEN [raised |-> "none", rows |-> <<>>]
    ELSE LET before == load_files(files, k - 1)
             this == normalize_transaction_dataframe(files[k])
         IN  IF before.raised # "none" THEN before
             ELSE IF this.raised # "none" THEN [raised |-> this.raised, rows |-> <<>>]
             ELSE [raised |-> "none", rows |-> before.rows \o this.df.rows]

\* load_transaction_data(): all transaction files of data/raw
load_transaction_data(files) ==
    IF files = <<>> THEN [raised |-> "FileNotFoundError", rows |-> <<>>]
    ELSE load_files(files, Len(files))

\* generate_wallet_data_from_transactions(df_tx)
generate_wallet_data_from_transactions(tx) ==
    LET sent(a) == {i \in DOMAIN tx : tx[i].from_address = a}
        received(a) == {i \in DOMAIN tx : tx[i].to_address = a}
    IN  [a \in {tx[i].from_address : i \in DOMAIN tx} \cup
               {tx[i].to_address : i \in DOMAIN tx} |->
            [total_transactions |-> Cardinality(sent(a)) + Cardinality(received(a)),
             total_volume_in |-> SumAmount(tx, received(a)),
             total_volume_out |-> SumAmount(tx, sent(a))]]

\* load_wallet_data(df_tx=df_tx): raised = "none" and the wallet frame, read from
\* wallet.json or generated from the transactions when there is no such file
load_wallet_data(file, tx) ==
    IF file = <<>>
    THEN [raised |-> "none", df |-> generate_wallet_data_from_transactions(tx)]
    ELSE LET columns == {lower(c) : c \in file[1].columns}
         IN  IF "address" \notin columns
             THEN [raised |-> "ValueError", df |-> EmptyFrame]
             ELSE IF ~({"total_transactions", "total_volume_in", "total_volume_out"}
                          \subseteq columns)
             THEN [raised |-> "KeyError", df |-> EmptyFrame]
             ELSE [raised |-> "none", df |-> file[1].frame]

\* the 50 smurfing transactions, i = 0..SMURFING_TX_COUNT - 1
smurf_txs(start_time) ==
    [k \in 1..SMURFING_TX_COUNT |->
        [pkid |-> 900000 + (k - 1),
         block_time |-> start_time + (k - 1) * SMURFING_INTERVAL_SECONDS,
         from_address |-> ACTOR_SMURF,
         to_address |-> <<"0xRECEIVER_SMURF", k - 1>>,
         amount |-> SMURFING_AMOUNT,
         fee |-> 2]]

\* the layering pair: funds in at 5 minutes, out LAYERING_TIME_DIFF_SECONDS later
layer_txs(start_time) ==
    <<[pkid |-> 910000,
       block_time |-> start_time + 300,
       from_address |-> <<"0xSOURCE_FUNDS", 0>>,
       to_address |-> ACTOR_LAYER,
       amount |-> LAYERING_AMOUNT_IN,
       fee |-> 2],
      [pkid |-> 910001,
       block_time |-> start_time + 300 + LAYERING_TIME_DIFF_SECONDS,
       from_address |-> ACTOR_LAYER,
       to_address |-> <<"0xFINAL_DEST", 0>>,
       amount |-> LAYERING_AMOUNT_OUT,
       fee |-> 2]>>

\* the 100 spam transactions
spam_txs(start_time) ==
    [k \in 1..SPAM_TX_COUNT |->
        [pkid |-> 920000 + (k - 1),
         block_time |-> start_time + (k - 1) * SPAM_INTERVAL_SECONDS,
         from_address |-> ACTOR_SPAM,
         to_address |-> <<"0xTARGET_CONTRACT", 0>>,
         amount |-> SPAM_AMOUNT,
         fee |-> 2]]

\* inject_synthetic_bad_actors(df_tx) with INJECT_SYNTHETIC_DATA = True; the
\* clock read for an empty frame is taken as time 0
inject_synthetic_bad_actors(tx) ==
    LET start_time == IF tx = <<>> THEN 0
                      ELSE MinOf({tx[i].block_time : i \in DOMAIN tx})
    IN  tx \o smurf_txs(start_time) \o layer_txs(start_time) \o spam_txs(start_time)

-----------------------------------------------------------------------------
(* graph_analysis.py *)

\* config.ROUND_AMOUNTS, in thousandths
ROUND_AMOUNTS == {100, 500, 1000, 5000, 10000, 50000, 100000, 500000, 1000000}

\* the columns run_graph_investigation and its helpers read from df_tx
GraphReads == {"FromAddress", "ToAddress", "Amount", "PKID"}

Range(s) == {s[i] : i \in DOMAIN s}

RECURSIVE NodeOrder(_, _)
\* the nodes of the first k rows in the order add_edge first meets them
NodeOrder(rows, k) ==
    IF k = 0 THEN <<>>
    ELSE LET prev == NodeOrder(rows, k - 1)
             u == rows[k].FromAddress
             v == rows[k].ToAddress
             withU == IF u \in Range(prev) THEN prev ELSE Append(prev, u)
         IN  IF v \in Range(withU) THEN withU ELSE Append(withU, v)

\* build_transaction_graph(df_tx): a DiGraph holds one edge per (source, target);
\* a later row with the same pair overwrites the edge's attributes
build_transaction_graph(rows) ==
    LET pair(i) == <<rows[i].FromAddress, rows[i].ToAddress>>
        last(p) == CHOOSE i \in DOMAIN rows :
                      /\ pair(i) = p
                      /\ \A j \in DOMAIN rows : pair(j) = p => j <= i
    IN  [nodes |-> NodeOrder(rows, Len(rows)),
         edges |-> [p \in {pair(i) : i \in DOMAIN rows} |->
                       [Amount |-> rows[last(p)].Amount, PKID |-> rows[last(p)].PKID]]]

\* calculate_centrality_metrics(G): G.degree(), in-degree plus out-degree
calculate_centrality_metrics(G) ==
    [n \in Range(G.nodes) |->
        Cardinality({p \in DOMAIN G.edges : p[1] = n})
        + Cardinality({p \in DOMAIN G.edges : p[2] = n})]

\* what community_louvain.best_partition may return for G: the library's
\* clustering is not part of this code; every node alone, or all nodes together
best_partition(G) ==
    LET pos(n) == CHOOSE i \in DOMAIN G.nodes : G.nodes[i] = n
    IN  {[n \in Range(G.nodes) |-> 0], [n \in Range(G.nodes) |-> pos(n) - 1]}

\* faulty variant of detect_communities: only the import error is caught
detect_communities_ImportErrorOnly(G, lib) ==
    IF lib = "ok"
    THEN {[raised |-> "none", partition |-> part] : part \in best_partition(G)}
    ELSE IF lib = "ImportError" THEN {[raised |-> "none", partition |-> <<>>]}
    ELSE {[raised |-> lib, partition |-> <<>>]}

\* detect_communities(G): what it may return (raised = "none": it returns
\* partition); the import error and any exception of the library end in the
\* empty partition
detect_communities(G, lib) ==
    IF lib = "ok"
    THEN {[raised |-> "none", partition |-> part] : part \in best_partition(G)}
    ELSE {[raised |-> "none", partition |-> <<>>]}

RECURSIVE ListOf(_)
\* a list of the members of S
ListOf(S) ==
    IF S = {} THEN <<>>
    ELSE LET x == CHOOSE y \in S : TRUE IN <<x>> \o ListOf(S \ {x})

\* nx.simple_cycles(G): every elementary circuit once (self-loops included), as
\* the list of its nodes; which node of a circuit comes first follows the order
\* in which the nodes entered the graph
simple_cycles(G) ==
    LET N == Range(G.nodes)
        pos(n) == CHOOSE i \in DOMAIN G.nodes : G.nodes[i] = n
        circuit(c) ==
            /\ \A i, j \in DOMAIN c : i # j => c[i] # c[j]
            /\ \A i \in DOMAIN c :
                  <<c[i], c[IF i = Len(c) THEN 1 ELSE i + 1]>> \in DOMAIN G.edges
            /\ \A i \in DOMAIN c : pos(c[1]) <= pos(c[i])
    IN  ListOf({c \in UNION {[1..k -> N] : k \in 1..Cardinality(N)} : circuit(c)})

\* python's order of the address strings "0xW0" .. "0xW9"
AddrRank(a) == a[2]

\* sorted(cycle) for a list of distinct addresses
sorted(c) ==
    CHOOSE s \in [1..Len(c) -> Range(c)] :
        \A i, j \in 1..Len(c) : i < j => AddrRank(s[i]) < AddrRank(s[j])

\* faulty variant of detect_wash_trading: the groups are not sorted
detect_wash_trading_Unsorted(G) ==
    LET cycles == simple_cycles(G)
    IN  {cycles[i] : i \in {j \in DOMAIN cycles : Len(cycles[j]) \in {2, 3}}}

\* faulty variant of detect_wash_trading: every cycle of two or more addresses counts
detect_wash_trading_AnyLength(G) ==
    LET cycles == simple_cycles(G)
    IN  {sorted(cycles[i]) : i \in {j \in DOMAIN cycles : Len(cycles[j]) >= 2}}

\* detect_wash_trading(G): the sorted address tuples of the cycles of length 2
\* and 3, as a set
detect_wash_trading(G) ==
    LET cycles == simple_cycles(G)
    IN  {sorted(cycles[i]) : i \in {j \in DOMAIN cycles : Len(cycles[j]) \in {2, 3}}}

\* detect_mixer_usage(df_tx, round_amounts): the senders of a row whose Amount
\* is one of round_amounts
detect_mixer_usage(rows, round_amounts) ==
    {rows[i].FromAddress : i \in {j \in DOMAIN rows : rows[j].Amount \in round_amounts}}

\* "BAD_ACTOR" in n
has_BAD_ACTOR(n) == n \in {ACTOR_SMURF, ACTOR_LAYER, ACTOR_SPAM}

\* filter_important_nodes(G, degree_dict, wash_trades, high_degree_threshold):
\* the bad actors, the hubs and the members of the wash-trade groups, then for
\* each of them G.neighbors(node), which on a DiGraph are its successors
filter_important_nodes(G, degree_dict, wash_trades, threshold) ==
    LET bad == {n \in Range(G.nodes) : has_BAD_ACTOR(n)}
        hubs == {n \in DOMAIN degree_dict : degree_dict[n] > threshold}
        groups == UNION {Range(group) : group \in wash_trades}
        first == bad \cup hubs \cup groups
        neighbors(node) == {p[2] : p \in {e \in DOMAIN G.edges : e[1] = node}}
    IN  first \cup UNION {neighbors(node) : node \in first \cap Range(G.nodes)}

\* add_graph_flags_to_wallets(df_wallets, wash_trades, mixer_users)
add_graph_flags_to_wallets(df_wallets, wash_trades, mixer_users) ==
    LET wash_trade_wallets == UNION {Range(group) : group \in wash_trades}
        flagged == SetColumn(df_wallets, "wash_trading_flag",
                             [a \in Index(df_wallets) |-> a \in wash_trade_wallets])
    IN  SetColumn(flagged, "mixer_suspect_flag",
                  [a \in Index(df_wallets) |-> a \in mixer_users])

\* the rows run_graph_investigation analyses: all of them, or with
\* filter_high_risk and a Risk_Level column those that touch a HIGH or CRITICAL wallet
df_tx_filtered(rows, df_wallets, filtering) ==
    IF filtering /\ "Risk_Level" \in Columns(df_wallets)
    THEN LET high_risk_wallets ==
                 {a \in Index(df_wallets) : df_wallets[a].Risk_Level \in {"HIGH", "CRITICAL"}}
         IN  SelectSeq(rows, LAMBDA r : r.FromAddress \in high_risk_wallets
                                        \/ r.ToAddress \in high_risk_wallets)
    ELSE rows

-----------------------------------------------------------------------------
(* Inputs *)

\* ledger data: n senders 0xW1..0xWn, each sending k transactions of 1.0, one a
\* minute, to its own receiver
RealTx(n, k) ==
    [i \in 1..(n * k) |->
        [pkid |-> i,
         block_time |-> 60 * ((i - 1) % k),
         from_address |-> <<"0xW", ((i - 1) \div k) + 1>>,
         to_address |-> <<"0xR", ((i - 1) \div k) + 1>>,
         amount |-> 1000,
         fee |-> 2]]

\* the wallet.json files tried: wallets without any transaction, and a sender
WalletFiles ==
    {[a \in A |-> [total_transactions |-> 0, total_volume_in |-> 0,
                   total_volume_out |-> 0]] :
        A \in {{<<"0xIDLE", 0>>}, {<<"0xIDLE", 0>>, <<"0xW", 1>>}}}

\* the column names of a transaction file as db.fetch_transactions writes them,
\* and as a file with capitalised names has them
TxColumnNames(style) ==
    IF style = "from_address"
    THEN [pkid |-> "pkid", block_time |-> "block_time", from_address |-> "from_address",
          to_address |-> "to_address", amount |-> "amount", fee |-> "fee"]
    ELSE [pkid |-> "PKID", block_time |-> "BlockTime", from_address |-> "FromAddress",
          to_address |-> "ToAddress", amount |-> "Amount", fee |-> "Fee"]

\* the file holding rows under the column names of style, without the field
\* lacking ("" for a complete file); a file of no records has no columns
TxFile(rows, style, lacking) ==
    LET name == TxColumnNames(style)
        fields == DOMAIN name \ {lacking}
    IN  IF rows = <<>> THEN [columns |-> {}, rows |-> <<>>]
        ELSE [columns |-> {name[f] : f \in fields},
              rows |-> [i \in DOMAIN rows |->
                          [c \in {name[f] : f \in fields} |->
                              rows[i][CHOOSE f \in fields : name[f] = c]]]]

\* a second ledger file: the two transactions of the sender 0xV1
ExtraTx ==
    [i \in 1..2 |->
        [pkid |-> 500 + i,
         block_time |-> 60 * i,
         from_address |-> <<"0xV", 1>>,
         to_address |-> <<"0xR", 9>>,
         amount |-> 1000,
         fee |-> 2]]

\* the transaction files found under data/raw: none, the ledger alone, the second
\* file alone, or both in either name order; the second file may lack a field
TxFileSets ==
    LET ledgers == {TxFile(RealTx(n, k), "from_address", "") :
                       n \in 0..MaxRealSenders, k \in 1..MaxRealTx}
        both == {TxFile(RealTx(n, 1), "from_address", "") : n \in {1, MaxRealSenders}}
        extras == {TxFile(ExtraTx, style, lacking) :
                       style \in {"from_address", "FromAddress"},
                       lacking \in {"", "pkid", "block_time", "from_address",
                                    "to_address", "amount", "fee"}}
    IN  {<<>>} \cup {<<f>> : f \in ledgers \cup extras}
        \cup {<<f, g>> : f \in both, g \in extras}
        \cup {<<g, f>> : f \in both, g \in extras}

\* wallet.json: absent, complete, or lacking a field
WalletFileChoices ==
    LET all == {"address", "total_transactions", "total_volume_in", "total_volume_out"}
    IN  {<<>>}
        \cup {<<[columns |-> all, frame |-> w]>> : w \in WalletFiles}
        \cup {<<[columns |-> all \ {c}, frame |-> EmptyFrame]>> :
                 c \in {"address", "total_transactions"}}

ArtifactSets == {{}, {"scaler"}, {"scaler", "iso", "lof"}}

\* An aggregate row as get_wallet_features would make it from n sends to u
\* counterparties lasting secs seconds and summing to snd, and rcvn receipts
\* summing to rcv.
Profile(n, u, secs, snd, rcvn, rcv) ==
    [snd_tx_count |-> n,
     snd_amount_sum |-> snd,
     snd_unique_counterparties |-> u,
     snd_tx_per_minute |-> IF n < 2 THEN RatInt(0) ELSE Rat(60 * n, secs + 60),
     rcv_tx_count |-> rcvn,
     rcv_amount_sum |-> rcv]

\* the aggregates of the three synthetic actors
SmurfProfile ==
    Profile(SMURFING_TX_COUNT, SMURFING_TX_COUNT,
            (SMURFING_TX_COUNT - 1) * SMURFING_INTERVAL_SECONDS,
            SMURFING_TX_COUNT * SMURFING_AMOUNT, 0, 0)
LayerProfile == Profile(1, 1, 0, LAYERING_AMOUNT_OUT, 1, LAYERING_AMOUNT_IN)
SpamProfile ==
    Profile(SPAM_TX_COUNT, 1, (SPAM_TX_COUNT - 1) * SPAM_INTERVAL_SECONDS,
            SPAM_TX_COUNT * SPAM_AMOUNT, 0, 0)

\* the rows of the other wallets of a batch: two sends a minute apart to one
\* counterparty, or three sends over two minutes to three
CrowdProfile == Profile(2, 1, 60, 3000, 0, 0)
CrowdRow(i) == IF i % 2 = 1 THEN CrowdProfile ELSE Profile(3, 3, 120, 6000, 0, 0)

\* sends and receipts around the pass-through band and floor
Flows ==
    {<<0, 0>>, <<10000, 10000>>, <<18000, 20000>>, <<22000, 20000>>,
     <<22001, 20000>>, <<17999, 20000>>, <<101000, 0>>, <<100000, 100000>>}

\* rows of a single wallet: counts around MIN_TX_FOR_ML and STRUCTURING_MIN_TX,
\* velocities around the bot thresholds, flows around the pass-through band
WideProfiles ==
    {Profile(0, 0, 0, 0, 1, 20000)}
    \cup {Profile(1, 1, 0, f[1], IF f[2] > 0 THEN 1 ELSE 0, f[2]) : f \in Flows}
    \cup {Profile(c[1], c[2], secs, f[1], IF f[2] > 0 THEN 1 ELSE 0, f[2]) :
            c \in UNION {{<<n, 1>>, <<n, n>>} : n \in {2, 4, 5, 9, 25}},
            secs \in {0, 15, 60}, f \in Flows}
    \cup {SmurfProfile, LayerProfile, SpamProfile}

\* rows of the wallet under study in a batch
NarrowProfiles ==
    {Profile(0, 0, 0, 0, 1, 20000), LayerProfile, CrowdProfile, SmurfProfile,
     SpamProfile, Profile(25, 25, 0, 22000, 1, 20000), Profile(25, 1, 0, 3000, 0, 0)}

CrowdAddress(i) == <<"0xW", i>>

\* a frame handed to the stages by a caller: the row p at address addr and the
\* rows CrowdRow(1..crowd); with amount = <<v>> every row carries the column
\* snd_Amount_sum (v in the row p), with amount = <<>> none does
Frame(addr, p, crowd, amount) ==
    LET with(row, v) == IF amount = <<>> THEN row ELSE ("snd_Amount_sum" :> v) @@ row
    IN  [a \in {addr} \cup {CrowdAddress(i) : i \in 1..crowd} |->
            IF a = addr THEN with(p, IF amount = <<>> THEN 0 ELSE amount[1])
            ELSE with(CrowdRow(a[2]), CrowdRow(a[2]).snd_amount_sum)]

\* the ledger the graph investigation is tried on, in thousandths: a round trip
\* 0xW1 <-> 0xW2, a triangle 0xW1 -> 0xW2 -> 0xW3 -> 0xW1, a square through
\* 0xW4, a self-transfer, a repeated pair, round and odd amounts
LedgerPool ==
    LET tx(id, u, v, amt) ==
            [PKID |-> id, FromAddress |-> CrowdAddress(u), ToAddress |-> CrowdAddress(v),
             Amount |-> amt]
    IN  <<tx(1, 1, 2, 10000), tx(2, 2, 1, 10370), tx(3, 2, 3, 5000),
          tx(4, 3, 1, 10370), tx(5, 3, 4, 10370), tx(6, 4, 1, 10370),
          tx(7, 4, 4, 10370), tx(8, 1, 2, 10370), tx(9, 4, 3, 10000),
          tx(10, 3, 2, 500), tx(11, 1, 3, 10370)>>

Reverse(s) == [i \in 1..Len(s) |-> s[Len(s) + 1 - i]]

\* the rows S of the ledger in file order, or in the opposite order
LedgerRows(S, rev) ==
    LET rows == SelectSeq(LedgerPool, LAMBDA r : r.PKID \in S)
    IN  IF rev THEN Reverse(rows) ELSE rows

\* a transaction frame with the column names run_graph_investigation reads, or
\* with the names normalize_transaction_dataframe gives them
TxFrame(rows, style) ==
    IF style = "FromAddress"
    THEN [columns |-> GraphReads, rows |-> rows]
    ELSE [columns |-> {"from_address", "to_address", "amount", "pkid"},
          rows |-> [i \in DOMAIN rows |->
                      [pkid |-> rows[i].PKID, from_address |-> rows[i].FromAddress,
                       to_address |-> rows[i].ToAddress, amount |-> rows[i].Amount]]]

\* a hub threshold low enough for the ledger to have hubs
LowDegreeThreshold == 3

\* wallet frames handed to run_graph_investigation: the raw wallet records, and
\* the scored records with their Risk_Level
GraphWallets ==
    LET W == {CrowdAddress(i) : i \in {1, 2, 3, 4, 9}}
        raw == [a \in W |-> [total_transactions |-> 0]]
        scored(level) == [a \in W |-> [total_transactions |-> 0, Risk_Level |-> level[a[2]]]]
    IN  {raw,
         scored([i \in 1..9 |-> "LOW"]),
         scored([i \in 1..9 |-> IF i = 1 THEN "HIGH" ELSE "LOW"]),
         scored([i \in 1..9 |-> IF i = 3 THEN "CRITICAL" ELSE IF i = 4 THEN "MEDIUM" ELSE "LOW"])}

\* the frame calculate_final_scores returns for the wallets 0xW1 .. 0xWn
ScoredFrame(n) ==
    calculate_final_scores(
        [a \in {CrowdAddress(i) : i \in 1..n} |->
            [risk_score_ml |-> RatInt(IF a[2] % 2 = 1 THEN 50 ELSE 0),
             risk_score_rule |-> IF a[2] <= 5 THEN 20 * a[2] ELSE 100]])

\* the risk-scores files update_risk_scores.py is run on: the files
\* export_results writes, and files keyed risk_score and risk_level
RiskFiles ==
    {export_results(ScoredFrame(n)) : n \in 0..MaxScored}
    \cup {[a \in Index(ScoredFrame(n)) |->
             [risk_score |-> ScoredFrame(n)[a].FINAL_RISK_SCORE,
              risk_level |-> ScoredFrame(n)[a].Risk_Level]] : n \in 1..MaxScored}

\* the row of a wallet whose risk has not been written yet
StaleRow == [risk_score |-> RatInt(-1), risk_level |-> "NONE"]

\* the table wallet_addresses before the update: the scored wallets and one
\* more, or the same without 0xW1
Tables ==
    {[a \in A |-> StaleRow] :
        A \in {{CrowdAddress(i) : i \in (1..MaxScored) \cup {9}},
               {CrowdAddress(i) : i \in (2..MaxScored) \cup {9}}}}

-----------------------------------------------------------------------------
(* The state machine *)

\* main() run on the files under data/raw
InitMain ==
    /\ pc = "load"
    /\ train_on_clean_data = TRAIN_ON_CLEAN_DATA
    /\ fits = NoFits
    /\ train_mode \in BOOLEAN
    /\ artifacts \in ArtifactSets
    /\ tx_files \in TxFileSets
    /\ wallet_file \in WalletFileChoices
    /\ df_tx = <<>>
    /\ df_wallet = EmptyFrame
    /\ active_wallets = EmptyFrame
    /\ error = "none"

\* the stages called on one wallet's aggregate row
InitRow ==
    /\ pc = "indicators"
    /\ train_on_clean_data = TRAIN_ON_CLEAN_DATA
    /\ fits = NoFits
    /\ train_mode \in BOOLEAN
    /\ artifacts = {}
    /\ tx_files = <<>>
    /\ wallet_file = <<>>
    /\ df_tx = <<>>
    /\ df_wallet = EmptyFrame
    /\ \E p \in WideProfiles :
         \E amount \in {<<>>, <<p.snd_amount_sum>>, <<VOLUME_ANOMALY_THRESHOLD>>,
                        <<VOLUME_ANOMALY_THRESHOLD + 1>>} :
            active_wallets = Frame(CrowdAddress(0), p, 0, amount)
    /\ error = "none"

\* the stages called on a batch of aggregate rows
InitBatch ==
    /\ pc = "indicators"
    /\ train_on_clean_data \in BOOLEAN
    /\ fits = NoFits
    /\ train_mode \in BOOLEAN
    /\ artifacts \in ArtifactSets
    /\ tx_files = <<>>
    /\ wallet_file = <<>>
    /\ df_tx = <<>>
    /\ df_wallet = EmptyFrame
    /\ \E p \in NarrowProfiles, addr \in {CrowdAddress(0), ACTOR_SMURF},
          crowd \in 0..MaxCrowd :
         \E amount \in {<<>>, <<p.snd_amount_sum>>} :
            active_wallets = Frame(addr, p, crowd, amount)
    /\ error = "none"

\* the other programs of the repository are not running
GraphIdle ==
    /\ g_pc = "idle"
    /\ g_df_tx = [columns |-> {}, rows |-> <<>>]
    /\ g_df_wallets = EmptyFrame
    /\ filter_high_risk = FALSE
    /\ louvain = "ok"
    /\ results = EmptyFrame
    /\ g_error = "none"
    /\ high_degree_threshold = GRAPH_HUB_DEGREE_THRESHOLD
    /\ important_nodes = {}

DbIdle ==
    /\ db_pc = "idle"
    /\ risk_data = EmptyFrame
    /\ batch_size = 1
    /\ dry_run = FALSE
    /\ db_up = FALSE
    /\ wallet_addresses = EmptyFrame
    /\ batch_start = 0
    /\ updated_count = 0
    /\ failed_count = 0
    /\ batch_log = <<>>
    /\ returned = [count |-> -1, success |-> FALSE]

Init == (InitMain \/ InitRow \/ InitBatch) /\ GraphIdle /\ DbIdle

\* a stage raises: main() ends with the exception
Raise(e) ==
    /\ pc' = "failed"
    /\ error' = e
    /\ UNCHANGED <<tx_files, wallet_file, train_on_clean_data, fits, train_mode,
                 artifacts, df_tx, df_wallet, active_wallets>>

\* load_data(): the transactions of all files, the wallets (wallet.json, or
\* generated from the transactions when there is none), then the synthetic
\* actors; an exception of either loader leaves load_data and main()
LoadData ==
    /\ pc = "load"
    /\ UNCHANGED scriptVars
    /\ LET tx == load_transaction_data(tx_files)
           wallet == load_wallet_data(wallet_file, tx.rows)
       IN  IF tx.raised # "none" THEN Raise(tx.raised)
           ELSE IF wallet.raised # "none" THEN Raise(wallet.raised)
           ELSE /\ df_wallet' = wallet.df
                /\ df_tx' = inject_synthetic_bad_actors(tx.rows)
                /\ pc' = "features"
                /\ UNCHANGED <<tx_files, wallet_file, train_on_clean_data, fits, train_mode, artifacts,
                               active_wallets, error>>

\* active_wallets = process_features(df_tx, df_wallet)
ProcessFeatures ==
    /\ pc = "features"
    /\ UNCHANGED scriptVars
    /\ active_wallets' = process_features(df_tx, df_wallet)
    /\ pc' = "ml"
    /\ UNCHANGED <<tx_files, wallet_file, train_on_clean_data, fits, train_mode,
                         artifacts, df_tx, df_wallet, error>>

\* calculate_risk_indicators(active_wallets) called on a frame of aggregates
CalculateRiskIndicators ==
    /\ pc = "indicators"
    /\ UNCHANGED scriptVars
    /\ IF IndicatorReads \subseteq Columns(active_wallets)
       THEN /\ active_wallets' = calculate_risk_indicators(active_wallets)
            /\ pc' = "ml"
            /\ UNCHANGED <<tx_files, wallet_file, train_on_clean_data, fits, train_mode,
                         artifacts, df_tx, df_wallet, error>>
       ELSE Raise("KeyError")

\* train_models(active_wallets)
TrainModels ==
    /\ pc = "ml"
    /\ UNCHANGED scriptVars
    /\ train_mode
    /\ IF NotEnoughData(active_wallets)
       THEN /\ active_wallets' = zero_ml_scores(active_wallets)
            /\ pc' = "rules"
            /\ UNCHANGED <<tx_files, wallet_file, train_on_clean_data, fits, train_mode,
                         artifacts, df_tx, df_wallet, error>>
       ELSE IF ~(ML_FEATURES \subseteq Columns(active_wallets))
       THEN Raise("KeyError")
       ELSE LET all_ml_data == Eligible(active_wallets)
            IN  /\ \E raw_iso_all \in DetectorOutputs(active_wallets, all_ml_data),
                      raw_lof_all \in DetectorOutputs(active_wallets, all_ml_data) :
                     active_wallets' =
                        join_ml_scores(active_wallets,
                                       ensemble_score(raw_iso_all, raw_lof_all))
                /\ artifacts' = {"scaler", "iso", "lof"}
                /\ fits' = [iso_source |-> "fitted", iso_rows |-> iso_fit(active_wallets),
                            lof_source |-> "fitted", lof_rows |-> lof_all_fit(active_wallets)]
                /\ pc' = "rules"
                /\ UNCHANGED <<tx_files, wallet_file, train_on_clean_data, train_mode,
                               df_tx, df_wallet, error>>

\* scaler, iso, lof = load_models(); predict_risk_scores(active_wallets, scaler, iso, lof)
PredictRiskScores ==
    /\ pc = "ml"
    /\ UNCHANGED scriptVars
    /\ ~train_mode
    /\ LET ml_subset == Eligible(active_wallets)
       IN  IF load_models(artifacts) = "error"
           THEN Raise("FileNotFoundError")
           ELSE IF load_models(artifacts) = "none" \/ ml_subset = {}
           THEN /\ active_wallets' = zero_ml_scores(active_wallets)
                /\ pc' = "rules"
                /\ UNCHANGED <<tx_files, wallet_file, train_on_clean_data, fits, train_mode,
                         artifacts, df_tx, df_wallet, error>>
           ELSE IF ~(ML_FEATURES \subseteq Columns(active_wallets))
           THEN Raise("KeyError")
           ELSE IF lof_n_neighbors(Cardinality(ml_subset)) < 1
           THEN Raise("ValueError")
           ELSE /\ \E raw_iso \in DetectorOutputs(active_wallets, ml_subset),
                      raw_lof \in DetectorOutputs(active_wallets, ml_subset) :
                     active_wallets' =
                        join_ml_scores(active_wallets, ensemble_score(raw_iso, raw_lof))
                /\ fits' = [iso_source |-> "persisted", iso_rows |-> {},
                            lof_source |-> "fitted", lof_rows |-> lof_temp_fit(active_wallets)]
                /\ pc' = "rules"
                /\ UNCHANGED <<tx_files, wallet_file, train_on_clean_data, train_mode,
                               artifacts, df_tx, df_wallet, error>>

\* calculate_rule_based_scores(active_wallets)
CalculateRuleBasedScores ==
    /\ pc = "rules"
    /\ UNCHANGED scriptVars
    /\ IF RuleReads \subseteq Columns(active_wallets)
       THEN /\ active_wallets' = calculate_rule_based_scores(active_wallets)
            /\ pc' = "blend"
            /\ UNCHANGED <<tx_files, wallet_file, train_on_clean_data, fits, train_mode,
                         artifacts, df_tx, df_wallet, error>>
       ELSE Raise("KeyError")

\* calculate_final_scores(active_wallets)
CalculateFinalScores ==
    /\ pc = "blend"
    /\ UNCHANGED scriptVars
    /\ active_wallets' = calculate_final_scores(active_wallets)
    /\ pc' = "done"
    /\ UNCHANGED <<tx_files, wallet_file, train_on_clean_data, fits, train_mode,
                         artifacts, df_tx, df_wallet, error>>

Next ==
    \/ LoadData
    \/ ProcessFeatures
    \/ CalculateRiskIndicators
    \/ TrainModels
    \/ PredictRiskScores
    \/ CalculateRuleBasedScores
    \/ CalculateFinalScores

Spec == Init /\ [][Next]_vars

\* main() is not running
MainIdle ==
    /\ pc = "idle"
    /\ train_on_clean_data = TRAIN_ON_CLEAN_DATA
    /\ fits = NoFits
    /\ train_mode = FALSE
    /\ artifacts = {}
    /\ tx_files = <<>>
    /\ wallet_file = <<>>
    /\ df_tx = <<>>
    /\ df_wallet = EmptyFrame
    /\ active_wallets = EmptyFrame
    /\ error = "none"

\* run_graph_investigation called on a ledger and a wallet frame
GraphInit ==
    /\ MainIdle
    /\ DbIdle
    /\ g_pc = "graph"
    /\ \E S \in SUBSET (1..MaxLedger), rev \in BOOLEAN :
         \E style \in {"FromAddress", "from_address"} :
            /\ style = "from_address" => S \subseteq 1..2
            /\ g_df_tx = TxFrame(LedgerRows(S, rev), style)
    /\ g_df_wallets \in GraphWallets
    /\ filter_high_risk \in BOOLEAN
    /\ louvain \in {"ok", "ImportError", "Exception"}
    /\ results = EmptyFrame
    /\ g_error = "none"
    /\ high_degree_threshold \in {LowDegreeThreshold, GRAPH_HUB_DEGREE_THRESHOLD}
    /\ important_nodes = {}

\* run_graph_investigation(df_tx, df_wallets, filter_high_risk)
RunGraphInvestigation ==
    /\ g_pc = "graph"
    /\ UNCHANGED <<mainVars, dbVars>>
    /\ UNCHANGED <<g_df_tx, filter_high_risk, louvain, high_degree_threshold>>
    /\ IF ~(GraphReads \subseteq g_df_tx.columns)
       THEN /\ g_pc' = "failed"
            /\ g_error' = IF filter_high_risk /\ "Risk_Level" \in Columns(g_df_wallets)
                          THEN "KeyError" ELSE "NetworkXError"
            /\ UNCHANGED <<g_df_wallets, results, important_nodes>>
       ELSE LET rows == df_tx_filtered(g_df_tx.rows, g_df_wallets, filter_high_risk)
                G == build_transaction_graph(rows)
                degree_dict == calculate_centrality_metrics(G)
                wash_trades == detect_wash_trading(G)
                mixer_users == detect_mixer_usage(rows, ROUND_AMOUNTS)
            IN  \E out \in detect_communities(G, louvain) :
                   IF out.raised # "none"
                   THEN /\ g_pc' = "failed"
                        /\ g_error' = out.raised
                        /\ UNCHANGED <<g_df_wallets, results, important_nodes>>
                   ELSE /\ g_df_wallets' =
                              add_graph_flags_to_wallets(g_df_wallets, wash_trades, mixer_users)
                        /\ results' = [graph |-> G,
                                       communities |-> out.partition,
                                       wash_trades |-> wash_trades,
                                       mixer_users |-> mixer_users,
                                       degree_dict |-> degree_dict]
                        /\ important_nodes' =
                              filter_important_nodes(G, degree_dict, wash_trades,
                                                     high_degree_threshold)
                        /\ g_pc' = "done"
                        /\ g_error' = "none"

GraphNext == RunGraphInvestigation

GraphSpec == GraphInit /\ [][GraphNext]_vars

\* update_risk_scores.py run on a risk-scores file against a table
DbInit ==
    /\ MainIdle
    /\ GraphIdle
    /\ db_pc = "start"
    /\ risk_data \in RiskFiles
    /\ batch_size \in {1, 2, MaxScored}
    /\ dry_run \in BOOLEAN
    /\ db_up \in BOOLEAN
    /\ wallet_addresses \in Tables
    /\ batch_start = 0
    /\ updated_count = 0
    /\ failed_count = 0
    /\ batch_log = <<>>
    /\ returned = [count |-> -1, success |-> FALSE]

\* update_database(risk_data, batch_size, dry_run) up to the call of
\* db.update_wallet_risk_scores
UpdateDatabase ==
    /\ db_pc = "start"
    /\ UNCHANGED <<mainVars, graphVars>>
    /\ UNCHANGED <<risk_data, batch_size, dry_run, db_up, wallet_addresses, batch_start,
                   updated_count, failed_count, batch_log>>
    /\ IF DOMAIN risk_data = {}
       THEN db_pc' = "done" /\ returned' = [count |-> -1, success |-> FALSE]
       ELSE IF dry_run
       THEN db_pc' = "done" /\ returned' = [count |-> -1, success |-> TRUE]
       ELSE IF ~db_up
       THEN db_pc' = "done" /\ returned' = [count |-> -1, success |-> FALSE]
       ELSE db_pc' = "batch" /\ returned' = returned

\* one turn of the loop of update_wallet_risk_scores: the batch is written and
\* committed, or a statement or the commit raises psycopg2.Error and the batch
\* is rolled back
WriteBatch ==
    /\ db_pc = "batch"
    /\ batch_start < Cardinality(DOMAIN risk_data)
    /\ UNCHANGED <<mainVars, graphVars>>
    /\ UNCHANGED <<db_pc, risk_data, batch_size, dry_run, db_up, returned>>
    /\ LET b == batch(risk_data, batch_start, batch_size)
           rows == batch_data(risk_data, b)
       IN  \E outcome \in {"ok", "statement fails", "commit fails"} :
              IF outcome = "ok"
              THEN /\ wallet_addresses' = executemany(wallet_addresses, rows, Len(rows))
                   /\ updated_count' = updated_count + Len(b)
                   /\ failed_count' = failed_count
                   /\ batch_log' = Append(batch_log, "committed")
              ELSE /\ wallet_addresses' =
                         rollback(wallet_addresses,
                                  executemany(wallet_addresses, rows,
                                              IF outcome = "commit fails" THEN Len(rows)
                                              ELSE Len(rows) - 1))
                   /\ updated_count' = updated_count
                   /\ failed_count' = failed_count + Len(b)
                   /\ batch_log' = Append(batch_log, "rolled_back")
    /\ batch_start' = batch_start + batch_size

\* the loop is over: update_wallet_risk_scores returns updated_count and
\* update_database returns whether it is positive
ReturnCount ==
    /\ db_pc = "batch"
    /\ batch_start >= Cardinality(DOMAIN risk_data)
    /\ UNCHANGED <<mainVars, graphVars>>
    /\ UNCHANGED <<risk_data, batch_size, dry_run, db_up, wallet_addresses, batch_start,
                   updated_count, failed_count, batch_log>>
    /\ db_pc' = "done"
    /\ returned' = [count |-> updated_count, success |-> updated_count > 0]

DbNext ==
    \/ UpdateDatabase
    \/ WriteBatch
    \/ ReturnCount

DbSpec == DbInit /\ [][DbNext]_vars

-----------------------------------------------------------------------------
(* Properties *)

HasColumn(c) == c \in Columns(active_wallets)

\* a run of main() on loaded transactions has come to its end
MainRunEnded == df_tx # <<>> /\ pc \in {"done", "failed"}

\* C1: after calculate_final_scores, a wallet whose risk_score_ml and
\* risk_score_rule lie in [0,100] has FINAL_RISK_SCORE =
\* min(100, 0.3 * risk_score_ml + 0.7 * risk_score_rule), and that lies in [0,100].
C1_FinalScoreInRange ==
    pc = "done" =>
        \A a \in Index(active_wallets) :
            LET ml == active_wallets[a].risk_score_ml
                rule == active_wallets[a].risk_score_rule
                final == active_wallets[a].FINAL_RISK_SCORE
                e_num == 3 * ml.num + 7 * rule * ml.den
                e_den == 10 * ml.den
            IN  (/\ 0 <= ml.num /\ ml.num <= 100 * ml.den
                 /\ 0 <= rule /\ rule <= 100)
                => /\ IF e_num <= 100 * e_den
                      THEN final.num * e_den = e_num * final.den
                      ELSE final.num = 100 * final.den
                   /\ 0 <= final.num
                   /\ final.num <= 100 * final.den

\* C1 witness: a blended wallet with both scores at the top of the scale
C1_Witness ==
    /\ pc = "done"
    /\ \E a \in Index(active_wallets) :
          /\ active_wallets[a].risk_score_ml = RatInt(100)
          /\ active_wallets[a].risk_score_rule = 100
          /\ active_wallets[a].FINAL_RISK_SCORE = RatInt(100)

LevelRank(level) ==
    CASE level = "LOW" -> 0
      [] level = "MEDIUM" -> 1
      [] level = "HIGH" -> 2
      [] level = "CRITICAL" -> 3

\* C2: Risk_Level is CRITICAL iff FINAL_RISK_SCORE >= 75, HIGH iff it is in
\* [50,75), MEDIUM iff in [25,50), LOW iff below 25; every wallet has one of the
\* four levels and a higher score never has a lower level.
C2_LevelLadder ==
    pc = "done" =>
        /\ \A a \in Index(active_wallets) :
              LET f == active_wallets[a].FINAL_RISK_SCORE
                  level == active_wallets[a].Risk_Level
              IN  /\ level \in {"LOW", "MEDIUM", "HIGH", "CRITICAL"}
                  /\ (level = "CRITICAL") <=> (f.num >= 75 * f.den)
                  /\ (level = "HIGH") <=> (f.num >= 50 * f.den /\ f.num < 75 * f.den)
                  /\ (level = "MEDIUM") <=> (f.num >= 25 * f.den /\ f.num < 50 * f.den)
                  /\ (level = "LOW") <=> (f.num < 25 * f.den)
        /\ \A a, b \in Index(active_wallets) :
              LET fa == active_wallets[a].FINAL_RISK_SCORE
                  fb == active_wallets[b].FINAL_RISK_SCORE
              IN  fa.num * fb.den <= fb.num * fa.den
                  => LevelRank(active_wallets[a].Risk_Level)
                        <= LevelRank(active_wallets[b].Risk_Level)

\* C2 witness: a wallet scored exactly at the HIGH threshold, next to a lower one
C2_Witness ==
    /\ pc = "done"
    /\ \E a, b \in Index(active_wallets) :
          /\ active_wallets[a].FINAL_RISK_SCORE = RatInt(50)
          /\ active_wallets[a].Risk_Level = "HIGH"
          /\ active_wallets[b].Risk_Level = "LOW"

\* the ML stage has returned
MlStageDone == pc \in {"rules", "blend", "done"} \/ (pc = "failed" /\ HasColumn("risk_score_ml"))

\* C3: once train_models or predict_risk_scores has returned, every wallet with
\* snd_tx_count < MIN_TX_FOR_ML (2) has risk_score_ml = 0.
C3_IneligibleMlZero ==
    MlStageDone =>
        \A a \in Index(active_wallets) :
            active_wallets[a].snd_tx_count < 2 => active_wallets[a].risk_score_ml.num = 0

\* C3 witness: predict mode ran the ensemble (another wallet scored above 0) on a
\* batch holding a wallet with a single send
C3_Witness ==
    /\ MlStageDone
    /\ ~train_mode
    /\ \E a, b \in Index(active_wallets) :
          /\ active_wallets[a].snd_tx_count = 1
          /\ active_wallets[a].risk_score_ml = RatInt(0)
          /\ active_wallets[b].risk_score_ml.num > 0

\* C4: whenever train_models or predict_risk_scores has returned on a batch in
\* which at most 5 wallets have snd_tx_count >= MIN_TX_FOR_ML, the ensemble was
\* skipped: every wallet has risk_score_ml = 0.
C4_SmallBatchSkipsMl ==
    (MlStageDone /\ Cardinality(Eligible(active_wallets)) <= 5)
    => \A a \in Index(active_wallets) : active_wallets[a].risk_score_ml.num = 0

IndicatorsDone == HasColumn("passthrough_score")

\* C5: after calculate_risk_indicators, flow_ratio is snd_amount_sum /
\* rcv_amount_sum (0 without receipts), passthrough_score is 0 or 100, and it is
\* 100 iff 0.9 <= flow_ratio <= 1.1 and snd_amount_sum > 10.0.
C5_PassthroughBinary ==
    IndicatorsDone =>
        \A a \in Index(active_wallets) :
            LET row == active_wallets[a]
                r == row.flow_ratio
            IN  /\ row.passthrough_score \in {0, 100}
                /\ IF row.rcv_amount_sum = 0 THEN r.num = 0
                   ELSE r.num * row.rcv_amount_sum = row.snd_amount_sum * r.den
                /\ (row.passthrough_score = 100)
                   <=> (/\ 9 * r.den <= 10 * r.num
                        /\ 10 * r.num <= 11 * r.den
                        /\ row.snd_amount_sum > 10000)

\* C5 witness: a wallet that received 20.0 and sent 18.0 (flow_ratio exactly
\* PASSTHROUGH_RATIO_MIN, above the amount floor) has passthrough_score 100
C5_Witness ==
    /\ IndicatorsDone
    /\ \E a \in Index(active_wallets) :
          /\ active_wallets[a].flow_ratio = [num |-> 9, den |-> 10]
          /\ active_wallets[a].snd_amount_sum = 18000
          /\ active_wallets[a].passthrough_score = 100

\* C6: after calculate_risk_indicators, structuring_score is 0 for every wallet
\* with snd_tx_count < STRUCTURING_MIN_TX (5) and is never negative.
C6_StructuringGated ==
    IndicatorsDone =>
        \A a \in Index(active_wallets) :
            /\ active_wallets[a].snd_tx_count < 5
               => active_wallets[a].structuring_score.num = 0
            /\ active_wallets[a].structuring_score.num >= 0

\* C6 witness: a wallet with 4 sends to 4 counterparties has structuring_score 0
C6_Witness ==
    /\ IndicatorsDone
    /\ \E a \in Index(active_wallets) :
          /\ active_wallets[a].snd_tx_count = 4
          /\ active_wallets[a].snd_unique_counterparties = 4
          /\ active_wallets[a].structuring_score = RatInt(0)

C8_SmurfRuleScore ==
    MainRunEnded =>
        /\ ACTOR_SMURF \in Index(active_wallets)
        /\ active_wallets[ACTOR_SMURF].structuring_score.num > 0
        /\ RatLT(RatInt(BOT_HIGH_VELOCITY), active_wallets[ACTOR_SMURF].bot_score)
        /\ HasColumn("risk_score_rule")
        /\ active_wallets[ACTOR_SMURF].risk_score_rule >= RULE_SPAM_HIGH_SCORE

\* C9: in a run of main() the smurfing wallet ends with FINAL_RISK_SCORE above
\* DETECTION_THRESHOLD (60) and Risk_Level HIGH or CRITICAL, whatever
\* risk_score_ml it was given.
C9_SmurfDetected ==
    MainRunEnded =>
        /\ ACTOR_SMURF \in Index(active_wallets)
        /\ HasColumn("FINAL_RISK_SCORE")
        /\ RatLT(RatInt(DETECTION_THRESHOLD), active_wallets[ACTOR_SMURF].FINAL_RISK_SCORE)
        /\ active_wallets[ACTOR_SMURF].Risk_Level \in {"HIGH", "CRITICAL"}

\* C10: in a run of main() the layering wallet (500.0 in, 499.5 out 30 s later)
\* ends with passthrough_score = 100, risk_score_ml = 0, risk_score_rule >= 80
\* and a FINAL_RISK_SCORE at or above RISK_THRESHOLD_HIGH (level HIGH or CRITICAL).
C10_LayererHigh ==
    MainRunEnded =>
        /\ ACTOR_LAYER \in Index(active_wallets)
        /\ active_wallets[ACTOR_LAYER].passthrough_score = 100
        /\ HasColumn("risk_score_ml")
        /\ active_wallets[ACTOR_LAYER].risk_score_ml = RatInt(0)
        /\ HasColumn("risk_score_rule")
        /\ active_wallets[ACTOR_LAYER].risk_score_rule >= 80
        /\ HasColumn("FINAL_RISK_SCORE")
        /\ RatLE(RatInt(RISK_THRESHOLD_HIGH), active_wallets[ACTOR_LAYER].FINAL_RISK_SCORE)
        /\ active_wallets[ACTOR_LAYER].Risk_Level \in {"HIGH", "CRITICAL"}

-----------------------------------------------------------------------------
(* Properties of ingestion and aggregation *)

\* the fields load_data is to find in every transaction file and in wallet.json
RequiredTxFields == {"pkid", "block_time", "from_address", "to_address", "amount", "fee"}
RequiredWalletFields ==
    {"address", "total_transactions", "total_volume_in", "total_volume_out"}

\* a file of the run lacks a required field
LacksRequiredField ==
    \/ \E k \in DOMAIN tx_files :
          ~(RequiredTxFields \subseteq {column_mapping(lower(c)) : c \in tx_files[k].columns})
    \/ /\ wallet_file # <<>>
       /\ ~(RequiredWalletFields \subseteq {lower(c) : c \in wallet_file[1].columns})

\* C16: when a transaction file or the wallet file lacks a required field,
\* load_data raises and hands no data to the pipeline, not even the records of
\* the files read before the faulty one.
C16_IngestionFailsFast ==
    (LacksRequiredField /\ pc # "load") =>
        /\ pc = "failed"
        /\ error # "none"
        /\ df_tx = <<>>
        /\ df_wallet = EmptyFrame
        /\ active_wallets = EmptyFrame

\* main() has aggregated the wallets of the transactions load_data returned
AggregationDone == df_tx # <<>> /\ pc \notin {"load", "features"}

\* the addresses that send or receive a transaction
TxAddresses ==
    {df_tx[i].from_address : i \in DOMAIN df_tx} \cup {df_tx[i].to_address : i \in DOMAIN df_tx}

\* C19: the output of aggregate_wallet_profiles holds exactly the addresses that
\* send or receive a transaction, those absent from the wallet metadata
\* included with their metadata 0, and no wallet with send and receive count 0.
C19_ActiveWalletsExact ==
    AggregationDone =>
        /\ Index(active_wallets) = TxAddresses
        /\ \A a \in Index(active_wallets) :
              /\ active_wallets[a].snd_tx_count > 0 \/ active_wallets[a].rcv_tx_count > 0
              /\ a \notin Index(df_wallet) =>
                    /\ active_wallets[a].total_transactions = 0
                    /\ active_wallets[a].total_volume_in = 0
                    /\ active_wallets[a].total_volume_out = 0

\* count / (span_minutes + 1) over the transactions S of df_tx, the span being
\* 0 below two transactions: 60 count / (span_seconds + 60)
VelocityOf(S) ==
    LET times == {df_tx[i].block_time : i \in S}
        span == IF Cardinality(S) < 2 THEN 0 ELSE MaxOf(times) - MinOf(times)
    IN  Rat(60 * Cardinality(S), span + 60)

\* C20: for each role a wallet's velocity is count / (span_minutes + 1), the
\* span being 0 below two transactions (1 for a single transaction), and
\* bot_score is the sender velocity unchanged.
C20_VelocityFormula ==
    AggregationDone =>
        \A a \in Index(active_wallets) :
            /\ active_wallets[a].snd_tx_per_minute
                  = VelocityOf({i \in DOMAIN df_tx : df_tx[i].from_address = a})
            /\ active_wallets[a].rcv_tx_per_minute
                  = VelocityOf({i \in DOMAIN df_tx : df_tx[i].to_address = a})
            /\ active_wallets[a].bot_score = active_wallets[a].snd_tx_per_minute

-----------------------------------------------------------------------------
(* Properties of the graph investigation *)

GraphDone == g_pc = "done"

\* the edges of the analysed graph
AnalysedEdges == DOMAIN results.graph.edges

\* a and b transfer to each other
RoundTrip(a, b) ==
    a # b /\ <<a, b>> \in AnalysedEdges /\ <<b, a>> \in AnalysedEdges

\* a -> b -> c -> a over three distinct addresses
Triangle(a, b, c) ==
    /\ a # b /\ b # c /\ a # c
    /\ <<a, b>> \in AnalysedEdges /\ <<b, c>> \in AnalysedEdges /\ <<c, a>> \in AnalysedEdges

\* the address sets that lie on a cycle of 2 or 3 addresses
CycleSets ==
    LET N == Range(results.graph.nodes)
    IN  UNION {{{a, b} : b \in {x \in N : RoundTrip(a, x)}} : a \in N}
        \cup UNION {{{a, b, c} : c \in {x \in N : Triangle(a, b, x)}} : a \in N, b \in N}

\* C11: detect_wash_trading returns each address set that lies on a cycle of 2
\* or 3 addresses exactly once, as its sorted tuple, whatever the order of the
\* rows (edges) and the node at which a cycle was discovered.
C11_WashTradeGroupsCanonical ==
    GraphDone =>
        /\ {Range(g) : g \in results.wash_trades} = CycleSets
        /\ \A g, h \in results.wash_trades : Range(g) = Range(h) => g = h
        /\ \A g \in results.wash_trades :
              \A i, j \in DOMAIN g : i < j => AddrRank(g[i]) < AddrRank(g[j])

\* the ledger is just B -> A followed by A -> B (the pair is discovered as
\* (B, A)) and the result is the one group (A, B)
C11_Witness ==
    /\ GraphDone
    /\ Len(g_df_tx.rows) = 2
    /\ g_df_tx.rows[1].FromAddress = CrowdAddress(2)
    /\ g_df_tx.rows[1].ToAddress = CrowdAddress(1)
    /\ g_df_tx.rows[2].FromAddress = CrowdAddress(1)
    /\ g_df_tx.rows[2].ToAddress = CrowdAddress(2)
    /\ results.graph.nodes = <<CrowdAddress(2), CrowdAddress(1)>>
    /\ results.wash_trades = {<<CrowdAddress(1), CrowdAddress(2)>>}

\* C12: after run_graph_investigation, with or without the high-risk filter, a
\* wallet's mixer_suspect_flag is True iff it is the sender of an input
\* transaction whose amount is one of ROUND_AMOUNTS.
C12_MixerFlagIffRoundSender ==
    GraphDone =>
        \A a \in Index(g_df_wallets) :
            g_df_wallets[a].mixer_suspect_flag
            <=> \E i \in DOMAIN g_df_tx.rows :
                   /\ g_df_tx.rows[i].FromAddress = a
                   /\ g_df_tx.rows[i].Amount \in ROUND_AMOUNTS

\* C13: after add_graph_flags_to_wallets a wallet's wash_trading_flag is True
\* iff its address lies on a directed cycle of exactly 2 or 3 distinct addresses
\* of the analysed graph; a self-transfer or a longer cycle does not set it.
C13_WashFlagIffShortCycle ==
    GraphDone =>
        \A a \in Index(g_df_wallets) :
            g_df_wallets[a].wash_trading_flag
            <=> \E b, c \in Range(results.graph.nodes) :
                   RoundTrip(a, b) \/ Triangle(a, b, c)

\* 0xW4 sends to itself and lies on the square 0xW1 -> 0xW2 -> 0xW3 -> 0xW4 ->
\* 0xW1 only: not flagged, while 0xW1 and 0xW2 of the round trip are
C13_Witness ==
    /\ GraphDone
    /\ {<<CrowdAddress(4), CrowdAddress(4)>>, <<CrowdAddress(1), CrowdAddress(2)>>,
        <<CrowdAddress(2), CrowdAddress(3)>>, <<CrowdAddress(3), CrowdAddress(4)>>,
        <<CrowdAddress(4), CrowdAddress(1)>>, <<CrowdAddress(2), CrowdAddress(1)>>}
       = AnalysedEdges
    /\ ~g_df_wallets[CrowdAddress(4)].wash_trading_flag
    /\ ~g_df_wallets[CrowdAddress(3)].wash_trading_flag
    /\ g_df_wallets[CrowdAddress(1)].wash_trading_flag
    /\ g_df_wallets[CrowdAddress(2)].wash_trading_flag

-----------------------------------------------------------------------------
(* Properties of the database update *)

\* the update ran against the database (not a dry run, connection made)
LiveUpdate == db_pc \in {"batch", "done"} /\ ~dry_run /\ db_up /\ DOMAIN risk_data # {}

\* the addresses of the k-th batch
BatchAddresses(k) == Range(batch(risk_data, (k - 1) * batch_size, batch_size))

\* the addresses of the batches tried so far that ended as kind
AddressesOf(kind) ==
    UNION {BatchAddresses(k) : k \in {j \in DOMAIN batch_log : batch_log[j] = kind}}

\* the row the update writes for address a
WrittenRow(a) ==
    [risk_score |-> DictGet(risk_data[a], "risk_score", RatInt(0)),
     risk_level |-> DictGet(risk_data[a], "risk_level", "UNKNOWN")]

\* the number of batches of the file
NumBatches == (Cardinality(DOMAIN risk_data) + batch_size - 1) \div batch_size

ExportedFile == \E n \in 0..MaxScored : risk_data = export_results(ScoredFrame(n))

\* C18: after the update script ran on a file written by export_results, the
\* row of every address of the file whose batch was committed holds the
\* exported FINAL_RISK_SCORE and Risk_Level
C18_ScoreRoundTrip ==
    (LiveUpdate /\ db_pc = "done" /\ ExportedFile) =>
        \A a \in AddressesOf("committed") \cap DOMAIN wallet_addresses :
            /\ wallet_addresses[a].risk_score = risk_data[a].FINAL_RISK_SCORE
            /\ wallet_addresses[a].risk_level = risk_data[a].Risk_Level

\* the same for a file keyed risk_score and risk_level
KeyedFileRoundTrip ==
    (LiveUpdate /\ db_pc = "done" /\ ~ExportedFile) =>
        \A a \in AddressesOf("committed") \cap DOMAIN wallet_addresses :
            /\ wallet_addresses[a].risk_score = risk_data[a].risk_score
            /\ wallet_addresses[a].risk_level = risk_data[a].risk_level

-----------------------------------------------------------------------------
(* Properties of the stages' interfaces and effects *)

\* C21: the fields the ensemble (ML_FEATURES) and the rule engine read are fields
\* of the records the aggregator and the indicator calculator produce: a run of
\* main() on files that have every required field never ends on a missing
\* field, and when it is done every active wallet has its risk record.
C21_StageInterfacesAgree ==
    (df_tx # <<>> /\ ~LacksRequiredField) =>
        /\ error # "KeyError"
        /\ pc = "done" =>
              \A a \in Index(active_wallets) :
                  {"FINAL_RISK_SCORE", "Risk_Level"} \subseteq DOMAIN active_wallets[a]

-----------------------------------------------------------------------------
(* Properties of the transaction graph *)

\* the rows the finished investigation built its graph from
AnalysedRows == df_tx_filtered(g_df_tx.rows, g_df_wallets, filter_high_risk)

\* C22: build_transaction_graph keeps one edge per transaction: the graph has as
\* many edges as there are transactions, and every transaction's amount and
\* identifier are carried by an edge from its sender to its receiver, two
\* transactions of one pair included.
C22_OneEdgePerTransaction ==
    GraphDone =>
        /\ Cardinality(DOMAIN results.graph.edges) = Len(AnalysedRows)
        /\ {[Amount |-> AnalysedRows[i].Amount, PKID |-> AnalysedRows[i].PKID,
             pair |-> <<AnalysedRows[i].FromAddress, AnalysedRows[i].ToAddress>>] :
                i \in DOMAIN AnalysedRows}
           = {[Amount |-> results.graph.edges[p].Amount,
               PKID |-> results.graph.edges[p].PKID, pair |-> p] :
                p \in DOMAIN results.graph.edges}

\* the cycles detect_wash_trading had enumerated on the graph of the investigation
EnumeratedCycles == Range(simple_cycles(results.graph))

\* C23: the enumeration of detect_wash_trading is capped at
\* GRAPH_CYCLE_MAX_LENGTH: no cycle longer than the cap is generated.
C23_CycleEnumerationCapped ==
    GraphDone => \A c \in EnumeratedCycles : Len(c) <= GRAPH_CYCLE_MAX_LENGTH

\* C24: a stage leaves the transaction set and the wallet record set it was
\* given unchanged (it returns an augmented copy); here the graph flagging
\* stage, whose caller keeps the frames g_df_tx and g_df_wallets it passed.
C24_StagesLeaveInputsUnchanged ==
    [][g_df_tx' = g_df_tx /\ g_df_wallets' = g_df_wallets]_vars

-----------------------------------------------------------------------------
(* Properties of the fits of the ensemble *)

C25_PredictWitness ==
    /\ pc = "done"
    /\ ~train_mode
    /\ fits.iso_source = "persisted"
    /\ fits.lof_source = "fitted"
    /\ \E a \in fits.lof_rows : active_wallets[a].risk_score_ml # RatInt(0)

\* C26: leaving the validation targets out of the training subset is controlled
\* by TRAIN_ON_CLEAN_DATA: set, no validation target is among the rows the
\* scaler and the isolation forest are fitted on; unset, the eligible targets
\* are among them; either way an eligible target is scored by the ensemble.
C26_CleanTrainingControlled ==
    (MlStageDone /\ train_mode /\ fits.iso_source = "fitted") =>
        /\ train_on_clean_data => fits.iso_rows \cap VALIDATION_TARGETS = {}
        /\ ~train_on_clean_data => fits.iso_rows = Eligible(active_wallets)
        /\ VALIDATION_TARGETS \cap Eligible(active_wallets) \subseteq fits.lof_rows

\* C27: filter_important_nodes returns exactly the bad-actor nodes, the nodes
\* whose degree exceeds the threshold, the nodes of the detected cycles, and
\* the 1-hop neighbours of those in either direction: the wallets they send to
\* and the wallets they receive from.
C27_ImportantNodes ==
    GraphDone =>
        LET E == DOMAIN results.graph.edges
            N == Range(results.graph.nodes)
            first == {n \in N : has_BAD_ACTOR(n)}
                     \cup {n \in N : results.degree_dict[n] > high_degree_threshold}
                     \cup UNION {Range(group) : group \in results.wash_trades}
        IN  important_nodes
               = first \cup {e[2] : e \in {x \in E : x[1] \in first}}
                       \cup {e[1] : e \in {x \in E : x[2] \in first}}

\* what the code returns: the neighbours are the wallets sent to only
SuccessorsOnly ==
    GraphDone =>
        LET E == DOMAIN results.graph.edges
            N == Range(results.graph.nodes)
            first == {n \in N : has_BAD_ACTOR(n)}
                     \cup {n \in N : results.degree_dict[n] > high_degree_threshold}
                     \cup UNION {Range(group) : group \in results.wash_trades}
        IN  important_nodes = first \cup {e[2] : e \in {x \in E : x[1] \in first}}

-----------------------------------------------------------------------------
(* Properties of the blended score *)

\* C28: with the weights 0.3 and 0.7 a wallet whose risk_score_ml is 0 has
\* FINAL_RISK_SCORE <= 70 and is never CRITICAL, so no wallet below
\* MIN_TX_FOR_ML and no wallet of a run scored by the rules alone is CRITICAL;
\* a wallet whose risk_score_rule is 0 has FINAL_RISK_SCORE <= 30 and is never
\* above MEDIUM.
C28_SingleSourceCeilings ==
    pc = "done" =>
        \A a \in Index(active_wallets) :
            LET row == active_wallets[a]
            IN  /\ row.risk_score_ml = RatInt(0) =>
                      /\ RatLE(row.FINAL_RISK_SCORE, RatInt(70))
                      /\ row.Risk_Level # "CRITICAL"
                /\ row.snd_tx_count < MIN_TX_FOR_ML => row.Risk_Level # "CRITICAL"
                /\ fits.lof_source = "none" => row.Risk_Level # "CRITICAL"
                /\ row.risk_score_rule = 0 =>
                      /\ RatLE(row.FINAL_RISK_SCORE, RatInt(30))
                      /\ row.Risk_Level \in {"LOW", "MEDIUM"}

\* a wallet with every rule at its top and no score from the ensemble ends at
\* 70, HIGH
C28_Witness ==
    /\ pc = "done"
    /\ \E a \in Index(active_wallets) :
          /\ active_wallets[a].risk_score_ml = RatInt(0)
          /\ active_wallets[a].risk_score_rule = 100
          /\ active_wallets[a].FINAL_RISK_SCORE = RatInt(70)
          /\ active_wallets[a].Risk_Level = "HIGH"

\* a wallet no rule fires on with 100 from the ensemble ends at 30, MEDIUM
C28_MlOnlyWitness ==
    /\ pc = "done"
    /\ \E a \in Index(active_wallets) :
          /\ active_wallets[a].risk_score_rule = 0
          /\ active_wallets[a].risk_score_ml = RatInt(100)
          /\ active_wallets[a].FINAL_RISK_SCORE = RatInt(30)
          /\ active_wallets[a].Risk_Level = "MEDIUM"

\* the row at the actor's address holds the aggregates of the transactions
\* inject_synthetic_bad_actors writes for it
IsInjected(t, profile) ==
    /\ t \in Index(active_wallets)
    /\ \A c \in DOMAIN profile \ {"rcv_tx_count"} : active_wallets[t][c] = profile[c]

\* C29: each of the three injected actors is reported detected by
\* validate_detection: a run of main() comes to the validation, and the
\* smurfer, the layerer and the spammer each have FINAL_RISK_SCORE above
\* DETECTION_THRESHOLD whatever risk_score_ml they were given.
C29_ActorsDetected ==
    /\ MainRunEnded => pc = "done"
    /\ pc = "done" =>
          /\ IsInjected(ACTOR_SMURF, SmurfProfile)
                => validate_detection(active_wallets).targets[ACTOR_SMURF].detected
          /\ IsInjected(ACTOR_LAYER, LayerProfile)
                => validate_detection(active_wallets).targets[ACTOR_LAYER].detected
          /\ IsInjected(ACTOR_SPAM, SpamProfile)
                => validate_detection(active_wallets).targets[ACTOR_SPAM].detected

\* the part of C29 about a frame that carries snd_Amount_sum: the stages done
\* on the smurfer's aggregates
SmurferScoredDetected ==
    (pc = "done" /\ IsInjected(ACTOR_SMURF, SmurfProfile)) =>
        validate_detection(active_wallets).targets[ACTOR_SMURF].detected

-----------------------------------------------------------------------------
(* Properties of predict mode *)

\* predict_risk_scores or load_models has been called on the indicator frame
PredictStageLeft ==
    /\ ~train_mode
    /\ HasColumn("bot_score")
    /\ pc \notin {"indicators", "ml"}

\* C30: in predict mode, when any of the three model files is missing,
\* load_models reports the models as not found, every wallet gets
\* risk_score_ml = 0 and the run goes on to the rules instead of failing.
C30_MissingModelsDegrade ==
    (PredictStageLeft /\ artifacts # {"scaler", "iso", "lof"}) =>
        /\ error # "FileNotFoundError"
        /\ HasColumn("risk_score_ml")
        /\ \A a \in Index(active_wallets) : active_wallets[a].risk_score_ml = RatInt(0)

\* the part of C30 that holds: no scaler file
NoScalerDegrades ==
    (PredictStageLeft /\ "scaler" \notin artifacts) =>
        /\ error # "FileNotFoundError"
        /\ HasColumn("risk_score_ml")
        /\ \A a \in Index(active_wallets) : active_wallets[a].risk_score_ml = RatInt(0)

====
